---------------------------- MODULE Spec2Model ----------------------------
(***************************************************************************)
(* A model of tbcontrol/blocksim.py: the block variants (LTI, Controller,  *)
(* PI, PID, Zero, AlgebraicEquation, Deadtime, DiscreteTF), the Diagram    *)
(* that wires them through named signals, and its reset / step / simulate  *)
(* operations.                                                             *)
(*                                                                         *)
(* Python objects are records holding exactly the attributes assigned so   *)
(* far (plus cls, the object's class).  Numbers are exact rationals <<n,   *)
(* d>> so that the divisions of the code (interpolation, the difference    *)
(* equation, the normalisation of a transfer function) are computed, not   *)
(* assumed.  Simulated time is an integer number of time units.            *)
(***************************************************************************)
EXTENDS Integers, Sequences, FiniteSets, TLC

\* ------------------------------------------------------------------------
\* Bounds of the model
\* ------------------------------------------------------------------------
\* Longest timestamp sequence given to simulate, and most steps since a reset.
MaxTicks == 3
\* Largest simulated time.
MaxTime == 3

\* ------------------------------------------------------------------------
\* Numbers: exact rational arithmetic standing for Python's + - * /
\* ------------------------------------------------------------------------
Abs(n) == IF n < 0 THEN -n ELSE n

RECURSIVE GCD(_, _)
GCD(a, b) == IF b = 0 THEN a ELSE GCD(b, a % b)

\* n/d with the common divisor g taken out and a positive denominator.
Lowest(n, d, g) ==
    IF d < 0 THEN <<(-n) \div g, (-d) \div g>> ELSE <<n \div g, d \div g>>

\* The rational n/d in lowest terms.
Q(n, d) == Lowest(n, d, GCD(Abs(n), Abs(d)))

R(n) == <<n, 1>>
R0 == R(0)
\* numpy's nan, the result of storing None into a float array.
NaN == <<0, 0>>

RAdd(a, b) == Q(a[1] * b[2] + b[1] * a[2], a[2] * b[2])
RSub(a, b) == Q(a[1] * b[2] - b[1] * a[2], a[2] * b[2])
RMul(a, b) == Q(a[1] * b[1], a[2] * b[2])
RDiv(a, b) == Q(a[1] * b[2], a[2] * b[1])
RNeg(a) == <<-a[1], a[2]>>

\* numpy.zeros(n)
zeros(n) == [i \in 1..n |-> R0]

\* numpy.inner / ndarray.dot of two vectors of the same length.
RECURSIVE inner(_, _)
inner(a, b) ==
    IF Len(a) = 0 THEN R0
    ELSE RAdd(RMul(a[1], b[1]), inner(Tail(a), Tail(b)))

\* Python's seq[::-1]
reversed(s) == [i \in 1..Len(s) |-> s[Len(s) + 1 - i]]
\* Python's seq[:-1] and seq[1:]
allButLast(s) == SubSeq(s, 1, Len(s) - 1)
allButFirst(s) == SubSeq(s, 2, Len(s))

\* A coefficient list of integers as numbers.
Coeffs(s) == [i \in 1..Len(s) |-> R(s[i])]

\* ------------------------------------------------------------------------
\* Objects
\* ------------------------------------------------------------------------
None == [cls |-> "NoneType"]

\* Python attribute assignment: the attributes of new replace or extend self.
SetAttrs(self, new) == new @@ self

\* A constructor call's outcome: the exception raised ("None" if none) and
\* the object with the attributes assigned up to that point.
Returned(self) == [raised |-> "None", self |-> self]
Raised(exc, self) == [raised |-> exc, self |-> self]

\* The classes that derive from Block.
BlockClasses ==
    {"Block", "LTI", "Controller", "PI", "PID", "Zero", "AlgebraicEquation",
     "Deadtime", "DiscreteTF"}
LTIClasses == {"LTI", "Controller", "PI", "PID"}
ControllerClasses == {"Controller", "PI", "PID"}

isinstance_Block(obj) == obj.cls \in BlockClasses

Block_init(self, name, inputname, outputname) ==
    SetAttrs(self, [name |-> name, inputname |-> inputname,
                    outputname |-> outputname])

\* ------------------------------------------------------------------------
\* Input functions
\* ------------------------------------------------------------------------
\* step(initial, starttime, size) returns stepfunction; zero is a function.
step(initial, starttime, size) ==
    [fn |-> "stepfunction", initial |-> initial, starttime |-> starttime,
     size |-> size]
zero == [fn |-> "zero"]

stepfunction(f, t) ==
    IF t < f.starttime THEN R(f.initial) ELSE R(f.initial + f.size)

\* Calling an external input function function(t).
CallInput(f, t) ==
    CASE f.fn = "stepfunction" -> stepfunction(f, t)
      [] f.fn = "zero" -> R0
      [] f.fn = "ramp" -> R(t)

\* Calling the function f(t, u) of an AlgebraicEquation: pure sample
\* functions of the caller.
CallF(f, t, u) ==
    CASE f = "double" -> RMul(R(2), u)
      [] f = "plus_t" -> RAdd(u, R(t))

\* ------------------------------------------------------------------------
\* Deadtime
\* ------------------------------------------------------------------------
Deadtime_change_state(self, x) == SetAttrs(self, [x |-> x, state |-> x])

Deadtime_reset(self) ==
    SetAttrs(Deadtime_change_state(self, R0),
             [y |-> R0, output |-> R0, ts |-> <<0>>, us |-> <<R0>>])

Deadtime_init(name, inputname, outputname, delay) ==
    Returned(Deadtime_reset(
        SetAttrs(Block_init([cls |-> "Deadtime"], name, inputname, outputname),
                 [delay |-> delay])))

\* numpy.interp between the samples j and j+1, where xp[j] <= x < xp[j+1],
\* or at the last sample j.
interp_at(x, xp, fp, j) ==
    IF j = Len(xp) THEN fp[j]
    ELSE IF xp[j] = x THEN fp[j]
    ELSE RAdd(RMul(RDiv(RSub(fp[j + 1], fp[j]), R(xp[j + 1] - xp[j])),
                   R(x - xp[j])),
              fp[j])

\* An interpolation that, among samples of equal time, starts from the first.
interp_leftmost(x, xp, fp) ==
    IF x > xp[Len(xp)] THEN fp[Len(xp)]
    ELSE IF x < xp[1] THEN fp[1]
    ELSE interp_at(x, xp, fp,
                   CHOOSE i \in 1..Len(xp) :
                       /\ xp[i] <= x
                       /\ \A k \in 1..(i - 1) : xp[k] < x
                       /\ \A k \in (i + 1)..Len(xp) : xp[k] >= x)

\* numpy.interp(x, xp, fp) for a non-decreasing xp: the end values outside
\* the range of xp, and inside it the interpolation from the last index j
\* with xp[j] <= x.
interp(x, xp, fp) ==
    IF x > xp[Len(xp)] THEN fp[Len(xp)]
    ELSE IF x < xp[1] THEN fp[1]
    ELSE interp_at(x, xp, fp,
                   CHOOSE i \in 1..Len(xp) :
                       /\ xp[i] <= x
                       /\ \A k \in (i + 1)..Len(xp) : xp[k] > x)

\* An append that is skipped when there is no delay.
Deadtime_append_if_delayed(self, t, u) ==
    IF self.delay > 0
    THEN SetAttrs(self, [ts |-> Append(self.ts, t), us |-> Append(self.us, u)])
    ELSE self

\* self.ts.append(t); self.us.append(u)
Deadtime_append(self, t, u) ==
    SetAttrs(self, [ts |-> Append(self.ts, t), us |-> Append(self.us, u)])

\* The value u becomes: interpolated from the history when delay > 0.
Deadtime_delayed(self, t, u) ==
    IF self.delay > 0 THEN interp(t - self.delay, self.ts, self.us) ELSE u

\* A hold that also stores the value as the block's state.
Deadtime_hold_state(self, y) ==
    SetAttrs(self, [y |-> y, output |-> y, x |-> y, state |-> y])

\* self.y = u; self.output = self.y
Deadtime_hold(self, y) == SetAttrs(self, [y |-> y, output |-> y])

\* change_input after the appends.
Deadtime_respond(self, t, u) == Deadtime_hold(self, Deadtime_delayed(self, t, u))

\* The block after change_input(t, u); the call returns its output.
Deadtime_change_input(self, t, u) ==
    Deadtime_respond(Deadtime_append(self, t, u), t, u)

\* ------------------------------------------------------------------------
\* LTI
\* ------------------------------------------------------------------------
\* The coefficient list c divided by a0 and padded on the left to length K.
Normalised(c, a0, K) ==
    [i \in 1..K |->
        IF i <= K - Len(c) THEN R0 ELSE RDiv(R(c[i - (K - Len(c))]), R(a0))]

\* The controller canonical form of num/den, both of length n + 1 >= 2 and
\* den[1] = 1.  Matrices are sequences of rows; B and C are vectors.
Canonical(num, den, n) ==
    [A |-> [i \in 1..n |->
               IF i = 1 THEN [j \in 1..n |-> RNeg(den[j + 1])]
               ELSE [j \in 1..n |-> IF j = i - 1 THEN R(1) ELSE R0]],
     B |-> [i \in 1..n |-> IF i = 1 THEN R(1) ELSE R0],
     C |-> [j \in 1..n |-> RSub(num[j + 1], RMul(num[1], den[j + 1]))],
     D |-> num[1]]

\* scipy.signal.lti(numerator, denominator).to_ss()
realize(numerator, denominator) ==
    IF Len(denominator) = 1
    THEN [A |-> <<<<R0>>>>, B |-> <<R0>>, C |-> <<R0>>,
          D |-> RDiv(R(numerator[1]), R(denominator[1]))]
    ELSE Canonical(Normalised(numerator, denominator[1], Len(denominator)),
                   Normalised(denominator, denominator[1], Len(denominator)),
                   Len(denominator) - 1)

LTI_change_state(self, x) == SetAttrs(self, [x |-> x, state |-> x])

\* if self.delay: self.delay.reset()
LTI_reset_delay(self) ==
    IF self.delay # None
    THEN SetAttrs(self, [delay |-> Deadtime_reset(self.delay)])
    ELSE self

LTI_reset(self) ==
    LTI_reset_delay(
        SetAttrs(LTI_change_state(self, zeros(Len(self.Gss.A))),
                 [y |-> R0, output |-> R0]))

LTI_init(self, name, inputname, outputname, numerator, denominator, delay) ==
    LTI_reset(
        SetAttrs(Block_init(self, name, inputname, outputname),
                 [G |-> [num |-> numerator, den |-> denominator],
                  Gss |-> realize(numerator, denominator),
                  delay |-> IF delay > 0
                            THEN Deadtime_init(None, None, None, delay).self
                            ELSE None]))

\* C.x + D.u, before the optional delay.
LTI_rawoutput(self, u) == RAdd(inner(self.Gss.C, self.x), RMul(self.Gss.D, u))

\* self.y = self.delay.change_input(t, self.y); self.output = self.y, given
\* the delay sub-block d after that call.
LTI_hold_delayed(self, d) ==
    SetAttrs(self, [delay |-> d, y |-> d.output, output |-> d.output])

\* change_input from the raw output y on.
LTI_respond(self, t, y) ==
    IF self.delay # None
    THEN LTI_hold_delayed(self, Deadtime_change_input(self.delay, t, y))
    ELSE SetAttrs(self, [y |-> y, output |-> y])

LTI_change_input(self, t, u) == LTI_respond(self, t, LTI_rawoutput(self, u))

\* A.x + B.e
LTI_derivative(self, e) ==
    [i \in 1..Len(self.x) |->
        RAdd(inner(self.Gss.A[i], self.x), RMul(self.Gss.B[i], e))]

\* ------------------------------------------------------------------------
\* Controller, PI, PID
\* ------------------------------------------------------------------------
Controller_init(self, name, inputname, outputname, numerator, denominator, delay, automatic) ==
    LTI_init(SetAttrs(self, [automatic |-> TRUE]), name, inputname,
             outputname, numerator, denominator, delay)

\* A controller that computes its output in manual mode too.
Controller_change_input_always(self, t, u) == LTI_change_input(self, t, u)

Controller_change_input(self, t, u) ==
    IF self.automatic THEN LTI_change_input(self, t, u) ELSE self

PI_init(name, inputname, outputname, Kc, tau_i) ==
    Returned(Controller_init([cls |-> "PI"], name, inputname, outputname,
                             <<Kc * tau_i, Kc>>, <<tau_i, 0>>, 0, TRUE))

\* What Python makes of the value __init__ returned: anything but None is a
\* TypeError ("__init__() should return None").
InitReturned(self, value) ==
    IF value # None THEN Raised("TypeError", self) ELSE Returned(self)

PID_init(name, inputname, outputname, Kc, tau_i, tau_d, alpha_f) ==
    IF tau_d = 0
    THEN InitReturned([cls |-> "PID"],
                      PI_init(name, inputname, outputname, Kc, tau_i).self)
    ELSE InitReturned(
             Controller_init([cls |-> "PID"], name, inputname, outputname,
                 <<Kc * alpha_f * tau_d * tau_i + Kc * tau_d * tau_i,
                   Kc * alpha_f * tau_d + Kc * tau_i,
                   Kc>>,
                 <<alpha_f * tau_d * tau_i, tau_i, 0>>, 0, TRUE),
             None)

\* ------------------------------------------------------------------------
\* Zero, AlgebraicEquation
\* ------------------------------------------------------------------------
Zero_init(name, inputname, outputname) ==
    Returned(Block_init([cls |-> "Zero"], name, inputname, outputname))

\* A Zero that passes its input through.
Zero_change_input_passes(self, t, u) == u

\* The value change_input(t, u) returns.
Zero_change_input(self, t, u) == R0

Zero_change_state(self, x) == SetAttrs(self, [x |-> R0, state |-> R0])
Zero_reset(self) == Zero_change_state(self, R0)

AlgebraicEquation_change_state(self, x) == SetAttrs(self, [x |-> x, state |-> x])

AlgebraicEquation_reset(self) ==
    SetAttrs(AlgebraicEquation_change_state(self, R0), [y |-> R0, output |-> R0])

AlgebraicEquation_init(name, inputname, outputname, f) ==
    Returned(AlgebraicEquation_reset(
        SetAttrs(Block_init([cls |-> "AlgebraicEquation"], name, inputname,
                            outputname),
                 [f |-> f])))

\* self.y = self.output = y
AlgebraicEquation_hold(self, y) == SetAttrs(self, [y |-> y, output |-> y])

AlgebraicEquation_change_input(self, t, u) ==
    AlgebraicEquation_hold(self, CallF(self.f, t, u))

\* ------------------------------------------------------------------------
\* DiscreteTF
\* ------------------------------------------------------------------------
\* The attributes __init__ assigns after its check.
DiscreteTF_fields(dt, numerator, denominator) ==
    [dt |-> dt,
     y_cos |-> reversed(Coeffs(denominator)),
     u_cos |-> reversed(Coeffs(numerator)),
     ys |-> zeros(Len(denominator)),
     us |-> zeros(Len(numerator)),
     next_sample |-> 0,
     state |-> R0,
     output |-> R0]

\* __init__ after super().__init__.
DiscreteTF_check(self, dt, numerator, denominator) ==
    IF denominator[1] = 0
    THEN Raised("ValueError", self)
    ELSE Returned(SetAttrs(self, DiscreteTF_fields(dt, numerator, denominator)))

DiscreteTF_init(name, input_name, output_name, dt, numerator, denominator) ==
    DiscreteTF_check(
        Block_init([cls |-> "DiscreteTF"], name, input_name, output_name),
        dt, numerator, denominator)

\* DiscreteTF.reset that leaves next_sample as the last run left it.
DiscreteTF_reset_stale(self) ==
    SetAttrs(self, [ys |-> zeros(Len(self.y_cos)),
                    us |-> zeros(Len(self.u_cos)),
                    state |-> R0,
                    output |-> R0])

DiscreteTF_reset(self) ==
    SetAttrs(self, [ys |-> zeros(Len(self.y_cos)),
                    us |-> zeros(Len(self.u_cos)),
                    next_sample |-> 0,
                    state |-> R0,
                    output |-> R0])

\* A sampling test that waits one interval more.
DiscreteTF_due_late(self, t) == t > self.next_sample + self.dt

\* Whether change_input(t, u) takes a sample.
DiscreteTF_due(self, t) == t > self.next_sample

\* next_sample += dt, and both buffers shifted: u and nan in the last slots.
DiscreteTF_shift(self, u) ==
    SetAttrs(self, [next_sample |-> self.next_sample + self.dt,
                    us |-> Append(allButFirst(self.us), u),
                    ys |-> Append(allButFirst(self.ys), NaN)])

\* A solution that divides by the first stored coefficient, a_m.
DiscreteTF_solve_first(self) ==
    RDiv(RSub(inner(self.u_cos, self.us),
              inner(allButLast(self.y_cos), allButLast(self.ys))),
         self.y_cos[1])

\* y = (u_sum - y_sum) / self.y_cos[-1]
DiscreteTF_solve(self) ==
    RDiv(RSub(inner(self.u_cos, self.us),
              inner(allButLast(self.y_cos), allButLast(self.ys))),
         self.y_cos[Len(self.y_cos)])

\* self.output = self.ys[-1] = y
DiscreteTF_store(self, y) ==
    SetAttrs(self, [ys |-> Append(allButLast(self.ys), y), output |-> y])

\* The sample taken on the shifted buffers.
DiscreteTF_sample(self) == DiscreteTF_store(self, DiscreteTF_solve(self))

DiscreteTF_change_input(self, t, u) ==
    IF DiscreteTF_due(self, t)
    THEN DiscreteTF_sample(DiscreteTF_shift(self, u))
    ELSE self

\* ------------------------------------------------------------------------
\* The Block contract, dispatched on the object's class
\* ------------------------------------------------------------------------
reset(b) ==
    CASE b.cls \in LTIClasses -> LTI_reset(b)
      [] b.cls = "Zero" -> Zero_reset(b)
      [] b.cls = "AlgebraicEquation" -> AlgebraicEquation_reset(b)
      [] b.cls = "Deadtime" -> Deadtime_reset(b)
      [] b.cls = "DiscreteTF" -> DiscreteTF_reset(b)

\* The block after change_input(t, u).
change_input(b, t, u) ==
    CASE b.cls = "LTI" -> LTI_change_input(b, t, u)
      [] b.cls \in ControllerClasses -> Controller_change_input(b, t, u)
      [] b.cls = "Zero" -> b
      [] b.cls = "AlgebraicEquation" -> AlgebraicEquation_change_input(b, t, u)
      [] b.cls = "Deadtime" -> Deadtime_change_input(b, t, u)
      [] b.cls = "DiscreteTF" -> DiscreteTF_change_input(b, t, u)

\* The value change_input(t, u) returned, b being the block after the call.
returned_output(b, t, u) ==
    IF b.cls = "Zero" THEN Zero_change_input(b, t, u) ELSE b.output

change_state(b, x) ==
    CASE b.cls \in LTIClasses -> LTI_change_state(b, x)
      [] b.cls = "Zero" -> Zero_change_state(b, x)
      [] b.cls = "AlgebraicEquation" -> AlgebraicEquation_change_state(b, x)
      [] b.cls = "Deadtime" -> Deadtime_change_state(b, x)
      [] b.cls = "DiscreteTF" -> b

\* state + dx * dt for the state vector of an LTI.
VectorEuler(state, dx, dt) ==
    [i \in 1..Len(state) |-> RAdd(state[i], RMul(dx[i], R(dt)))]

\* block.state + block.derivative(u) * dt
euler(b, u, dt) ==
    IF b.cls \in LTIClasses
    THEN VectorEuler(b.state, LTI_derivative(b, u), dt)
    ELSE RAdd(b.state, RMul(R0, R(dt)))

\* ------------------------------------------------------------------------
\* Diagram
\* ------------------------------------------------------------------------
\* sums and inputs are dictionaries: sequences of entries in insertion
\* order.  A sum term "<sign><signal>" is [sign |-> s[0], name |-> s[1:]].
Term(sign, name) == [sign |-> sign, name |-> name]
SumEntry(output, terms) == [output |-> output, terms |-> terms]
InputEntry(signal, function) == [signal |-> signal, function |-> function]

\* signals[name] = value
Store(signals, name, value) == (name :> value) @@ signals

InputNames(blocks) == {blocks[i].inputname : i \in 1..Len(blocks)}
OutputNames(blocks) == {blocks[i].outputname : i \in 1..Len(blocks)}
SumNames(sums) == {sums[i].output : i \in 1..Len(sums)}
ExternalNames(inputs) == {inputs[i].signal : i \in 1..Len(inputs)}

\* The signal table built by reset.
Diagram_reset_signals(self) ==
    [n \in InputNames(self.blocks) \cup OutputNames(self.blocks)
           \cup SumNames(self.sums) |-> R0]

Diagram_reset(self) ==
    SetAttrs(self,
        [signals |-> Diagram_reset_signals(self),
         blocks |-> [i \in 1..Len(self.blocks) |-> reset(self.blocks[i])]])

\* The first validation failure of the constructor, "None" if there is none.
Diagram_validate(blocks, sums) ==
    IF \E i \in 1..Len(blocks) : ~isinstance_Block(blocks[i])
    THEN "TypeError"
    ELSE IF \E i \in 1..Len(sums) : \E k \in 1..Len(sums[i].terms) :
                sums[i].terms[k].sign \notin {"+", "-"}
    THEN "ValueError"
    ELSE "None"

\* Diagram.__init__ that assigns its attributes before it raises.
Diagram_assign_first(self, blocks, sums, inputs, bad) ==
    IF bad # "None"
    THEN Raised(bad, SetAttrs(self, [blocks |-> blocks, sums |-> sums,
                                     inputs |-> inputs]))
    ELSE Returned(Diagram_reset(
             SetAttrs(self, [blocks |-> blocks, sums |-> sums,
                             inputs |-> inputs])))

\* __init__ after its checks found bad.
Diagram_assign(self, blocks, sums, inputs, bad) ==
    IF bad # "None"
    THEN Raised(bad, self)
    ELSE Returned(Diagram_reset(
             SetAttrs(self, [blocks |-> blocks, sums |-> sums,
                             inputs |-> inputs])))

Diagram_init(blocks, sums, inputs) ==
    Diagram_assign([cls |-> "Diagram"], blocks, sums, inputs,
                   Diagram_validate(blocks, sums))

\* int(s[0] + "1")
SignOf(term) == IF term.sign = "+" THEN R(1) ELSE R(-1)

\* Evaluate all inputs, from entry i on.
RECURSIVE EvalInputs(_, _, _, _)
EvalInputs(signals, inputs, t, i) ==
    IF i > Len(inputs) THEN signals
    ELSE EvalInputs(Store(signals, inputs[i].signal,
                          CallInput(inputs[i].function, t)),
                    inputs, t, i + 1)

\* The sum over a table that reads a missing name as 0.
RECURSIVE SumTerms_lenient(_, _, _, _)
SumTerms_lenient(signals, terms, k, acc) ==
    IF k > Len(terms) THEN [raised |-> "None", value |-> acc]
    ELSE IF terms[k].name \notin DOMAIN signals
    THEN SumTerms_lenient(signals, terms, k + 1, acc)
    ELSE SumTerms_lenient(signals, terms, k + 1,
                  RAdd(acc, RMul(SignOf(terms[k]), signals[terms[k].name])))

\* sum(int(s[0] + "1") * signals[s[1:]] for s in inputs), from term k on with
\* acc summed so far: the sum, or the KeyError of the first missing name.
RECURSIVE SumTerms(_, _, _, _)
SumTerms(signals, terms, k, acc) ==
    IF k > Len(terms) THEN [raised |-> "None", value |-> acc]
    ELSE IF terms[k].name \notin DOMAIN signals
    THEN [raised |-> "KeyError", value |-> acc]
    ELSE SumTerms(signals, terms, k + 1,
                  RAdd(acc, RMul(SignOf(terms[k]), signals[terms[k].name])))

\* Evaluate sums, from entry i on; r is the sum of entry i.
RECURSIVE EvalSums(_, _, _, _)
EvalSum(signals, sums, i, log, r) ==
    IF r.raised # "None"
    THEN [raised |-> r.raised, signals |-> signals,
          log |-> Append(log, <<r.raised, sums[i].output>>)]
    ELSE EvalSums(Store(signals, sums[i].output, r.value), sums, i + 1,
                  Append(log, <<"sum", sums[i].output>>))

EvalSums(signals, sums, i, log) ==
    IF i > Len(sums) THEN [raised |-> "None", signals |-> signals, log |-> log]
    ELSE EvalSum(signals, sums, i, log, SumTerms(signals, sums[i].terms, 1, R0))

\* An integration that feeds the derivative the block's fresh output.
Integrate_from_output(b, u, dt) ==
    change_state(b, euler(b, IF "output" \in DOMAIN b THEN b.output ELSE u, dt))

\* block.change_state(block.state + block.derivative(u) * dt)
Integrate(b, u, dt) == change_state(b, euler(b, u, dt))

\* Evaluate blocks and integrate, from block i on; b1 is block i after
\* change_input(t, u).
RECURSIVE EvalBlocks(_, _, _, _, _, _)
EvalBlock(signals, blocks, t, dt, i, log, u, b1) ==
    EvalBlocks(Store(signals, b1.outputname, returned_output(b1, t, u)),
               [blocks EXCEPT ![i] = Integrate(b1, u, dt)], t, dt, i + 1,
               log \o <<<<"change_input", b1.name>>, <<"change_state", b1.name>>>>)

EvalBlocks(signals, blocks, t, dt, i, log) ==
    IF i > Len(blocks) THEN [signals |-> signals, blocks |-> blocks, log |-> log]
    ELSE EvalBlock(signals, blocks, t, dt, i, log, signals[blocks[i].inputname],
                   change_input(blocks[i], t, signals[blocks[i].inputname]))

\* The calls of the input functions, in order.
InputLog(inputs) == [i \in 1..Len(inputs) |-> <<"input", inputs[i].signal>>]

\* step's result: the diagram after it, the exception it raised and the
\* calls it made, in order.
StepResult(self, raised, signals, blocks, log) ==
    [raised |-> raised,
     self |-> SetAttrs(self, [signals |-> signals, blocks |-> blocks]),
     log |-> log]

\* step once the blocks are evaluated.
StepAfterBlocks(self, r) == StepResult(self, "None", r.signals, r.blocks, r.log)

\* step once the sums are evaluated.
StepAfterSums(self, t, dt, r) ==
    IF r.raised # "None"
    THEN StepResult(self, r.raised, r.signals, self.blocks, r.log)
    ELSE StepAfterBlocks(self, EvalBlocks(r.signals, self.blocks, t, dt, 1, r.log))

\* A step that evaluates the sums last-defined first.
Diagram_step_sums_reversed(self, t, dt) ==
    StepAfterSums(self, t, dt,
        EvalSums(EvalInputs(self.signals, self.inputs, t, 1),
                 reversed(self.sums), 1, InputLog(self.inputs)))

\* Diagram.step(t, dt)
Diagram_step(self, t, dt) ==
    StepAfterSums(self, t, dt,
        EvalSums(EvalInputs(self.signals, self.inputs, t, 1), self.sums, 1,
                 InputLog(self.inputs)))

\* Recording that puts each new value in front of its series.
Record_in_front(outputs, signals) ==
    [n \in DOMAIN outputs \cup DOMAIN signals |->
        IF n \in DOMAIN signals
        THEN <<signals[n]>> \o (IF n \in DOMAIN outputs THEN outputs[n] ELSE <<>>)
        ELSE outputs[n]]

\* outputs[signal].append(value) for every entry of the signal table.
Record(outputs, signals) ==
    [n \in DOMAIN outputs \cup DOMAIN signals |->
        IF n \in DOMAIN signals
        THEN Append(IF n \in DOMAIN outputs THEN outputs[n] ELSE <<>>, signals[n])
        ELSE outputs[n]]

\* simple_control_diagram(Gc, G, Gd, Gm, ysp, d): the constructor calls of
\* its blocks, its sums and its inputs.
simple_control_diagram(Gc, G, Gd, Gm, ysp, d) ==
    [ctors |-> <<Gc, G,
                 IF Gd = None
                 THEN [cls |-> "Zero", name |-> "Gd", inputname |-> "d",
                       outputname |-> "yd"]
                 ELSE Gd,
                 IF Gm = None
                 THEN [cls |-> "LTI", name |-> "Gm", inputname |-> "y",
                       outputname |-> "ym", numerator |-> <<1>>,
                       denominator |-> <<1>>, delay |-> 0]
                 ELSE Gm>>,
     sums |-> <<SumEntry("e", <<Term("+", "ysp"), Term("-", "ym")>>),
                SumEntry("y", <<Term("+", "yu"), Term("+", "yd")>>)>>,
     inputs |-> <<InputEntry("ysp", ysp), InputEntry("d", d)>>]

\* ------------------------------------------------------------------------
\* The caller: constructor calls, then operations on the diagram
\* ------------------------------------------------------------------------
\* Running one constructor call of the caller's script.
Construct(c) ==
    CASE c.cls = "LTI" ->
           Returned(LTI_init([cls |-> "LTI"], c.name, c.inputname, c.outputname,
                             c.numerator, c.denominator, c.delay))
      [] c.cls = "Controller" ->
           Returned(Controller_init([cls |-> "Controller"], c.name, c.inputname,
                                    c.outputname, c.numerator, c.denominator,
                                    c.delay, c.automatic))
      [] c.cls = "PI" -> PI_init(c.name, c.inputname, c.outputname, c.Kc, c.tau_i)
      [] c.cls = "PID" ->
           PID_init(c.name, c.inputname, c.outputname, c.Kc, c.tau_i, c.tau_d,
                    c.alpha_f)
      [] c.cls = "Zero" -> Zero_init(c.name, c.inputname, c.outputname)
      [] c.cls = "AlgebraicEquation" ->
           AlgebraicEquation_init(c.name, c.inputname, c.outputname, c.f)
      [] c.cls = "Deadtime" ->
           Deadtime_init(c.name, c.inputname, c.outputname, c.delay)
      [] c.cls = "DiscreteTF" ->
           DiscreteTF_init(c.name, c.inputname, c.outputname, c.dt, c.numerator,
                           c.denominator)
      [] OTHER -> Returned([cls |-> c.cls])

\* Constructor calls, as the caller writes them.
NewLTI(name, inputname, outputname, numerator, denominator, delay) ==
    [cls |-> "LTI", name |-> name, inputname |-> inputname,
     outputname |-> outputname, numerator |-> numerator,
     denominator |-> denominator, delay |-> delay]
NewController(name, inputname, outputname, numerator, denominator, automatic) ==
    [cls |-> "Controller", name |-> name, inputname |-> inputname,
     outputname |-> outputname, numerator |-> numerator,
     denominator |-> denominator, delay |-> 0, automatic |-> automatic]
NewPI(name, inputname, outputname, Kc, tau_i) ==
    [cls |-> "PI", name |-> name, inputname |-> inputname,
     outputname |-> outputname, Kc |-> Kc, tau_i |-> tau_i]
NewPID(name, inputname, outputname, Kc, tau_i, tau_d, alpha_f) ==
    [cls |-> "PID", name |-> name, inputname |-> inputname,
     outputname |-> outputname, Kc |-> Kc, tau_i |-> tau_i, tau_d |-> tau_d,
     alpha_f |-> alpha_f]
NewZero(name, inputname, outputname) ==
    [cls |-> "Zero", name |-> name, inputname |-> inputname,
     outputname |-> outputname]
NewAlgebraicEquation(name, inputname, outputname, f) ==
    [cls |-> "AlgebraicEquation", name |-> name, inputname |-> inputname,
     outputname |-> outputname, f |-> f]
NewDeadtime(name, inputname, outputname, delay) ==
    [cls |-> "Deadtime", name |-> name, inputname |-> inputname,
     outputname |-> outputname, delay |-> delay]
NewDiscreteTF(name, inputname, outputname, dt, numerator, denominator) ==
    [cls |-> "DiscreteTF", name |-> name, inputname |-> inputname,
     outputname |-> outputname, dt |-> dt, numerator |-> numerator,
     denominator |-> denominator]

Script(ctors, sums, inputs) == [ctors |-> ctors, sums |-> sums, inputs |-> inputs]

\* The input functions the scripts use: step() with its defaults, other
\* steps, zero and a ramp.
StepInputs == {step(0, 0, 1), step(1, 1, 2), step(0, 2, 1)}
InputFunctions == StepInputs \cup {zero, [fn |-> "ramp"]}

\* Closed loops built by simple_control_diagram.
LoopScripts ==
    {simple_control_diagram(NewPI("Gc", "e", "u", 1, 1),
                            NewLTI("G", "u", "yu", <<1>>, <<1, 1>>, 0),
                            None, None, step(0, 0, 1), zero),
     simple_control_diagram(NewPI("Gc", "e", "u", 2, 1),
                            NewLTI("G", "u", "yu", <<1>>, <<2, 1>>, 1),
                            NewLTI("Gd", "d", "yd", <<1>>, <<1>>, 2),
                            None, step(1, 1, 2), step(0, 2, 1)),
     simple_control_diagram(NewPID("Gc", "e", "u", 1, 1, 1, 1),
                            NewLTI("G", "u", "yu", <<1>>, <<1, 1>>, 0),
                            None, None, step(0, 0, 1), [fn |-> "ramp"]),
     simple_control_diagram(NewController("Gc", "e", "u", <<2>>, <<1>>, FALSE),
                            NewLTI("G", "u", "yu", <<1>>, <<1, 1>>, 0),
                            None, None, step(0, 0, 1), zero)}

\* One block driven by one external input.
SingleScripts ==
    {Script(<<b>>, <<>>, <<InputEntry("u", f)>>) :
        b \in {NewZero("Z", "u", "y")}
              \cup {NewDeadtime("D", "u", "y", d) : d \in 0..2}
              \cup {NewDiscreteTF("F", "u", "y", 1, <<1>>, <<1>>),
                    NewDiscreteTF("F", "u", "y", 2, <<1>>, <<1>>),
                    NewDiscreteTF("F", "u", "y", 1, <<1, 1>>, <<2, 1>>),
                    NewAlgebraicEquation("f", "u", "y", "plus_t")},
        f \in StepInputs \cup {[fn |-> "ramp"]}}

\* Blocks in series, listed consumer first, with a junction reading a block
\* output and one reading a junction defined after it.
ChainScripts ==
    {Script(<<NewAlgebraicEquation("f", "w", "y", "double"),
              NewDeadtime("D", "v", "w", 1),
              NewDiscreteTF("F", "s", "v", 1, <<1>>, <<1>>)>>,
            <<SumEntry("s", <<Term("+", "r"), Term("-", "y"), Term("+", "q")>>),
              SumEntry("q", <<Term("+", "r"), Term("+", "r")>>)>>,
            <<InputEntry("r", f)>>) : f \in {step(1, 1, 2), [fn |-> "ramp"]}}

\* A junction term naming no signal of the diagram.
DanglingScripts ==
    {Script(<<NewDeadtime("D", "e", "y", 1)>>,
            <<SumEntry("a", <<Term("+", "r")>>),
              SumEntry("e", <<Term("+", "a"), Term("-", "nosuch")>>)>>,
            <<InputEntry("r", [fn |-> "ramp"])>>),
     Script(<<NewZero("Z", "x", "y")>>,
            <<SumEntry("e", <<Term("-", "nosuch"), Term("+", "x")>>)>>,
            <<>>)}

\* A controller with a delay, driven by one external input.
DelayedControllerScripts ==
    {Script(<<[NewController("Gc", "e", "u", <<1, 1>>, <<1, 0>>, TRUE)
                   EXCEPT !.delay = 1]>>,
            <<>>, <<InputEntry("e", step(1, 1, 2))>>)}

\* Constructor arguments the constructors reject.
InvalidScripts ==
    {Script(<<NewZero("Z", "u", "y"), [cls |-> "str"]>>, <<>>,
            <<InputEntry("u", zero)>>),
     Script(<<NewZero("Z", "e", "y")>>,
            <<SumEntry("e", <<Term("+", "r"), Term("y", "")>>)>>,
            <<InputEntry("r", zero)>>),
     Script(<<NewZero("Z", "u", "y"), [cls |-> "dict"]>>,
            <<SumEntry("e", <<Term("r", "")>>)>>, <<>>),
     Script(<<NewDiscreteTF("F", "u", "y", 1, <<1>>, <<0, 1>>)>>, <<>>,
            <<InputEntry("u", zero)>>),
     Script(<<NewPID("Gc", "e", "u", 2, 3, 0, 1)>>, <<>>,
            <<InputEntry("e", zero)>>),
     Script(<<NewPID("Gc", "e", "u", 1, 1, 0, 2)>>, <<>>,
            <<InputEntry("e", step(0, 0, 1))>>)}

Scripts ==
    LoopScripts \cup SingleScripts \cup ChainScripts \cup DanglingScripts
    \cup DelayedControllerScripts \cup InvalidScripts

\* Timestamp sequences given to simulate: strictly increasing, of up to
\* MaxTicks entries (and so also too short, and not uniformly spaced).
TimestampSeqs ==
    {ts \in UNION {[1..n -> 0..MaxTime] : n \in 0..MaxTicks} :
        \A i \in 1..(Len(ts) - 1) : ts[i] < ts[i + 1]}

\* The dt a caller passes to step directly.
StepSizes == {1, 2}

\* ------------------------------------------------------------------------
\* State
\* ------------------------------------------------------------------------
VARIABLES
    script,    \* the caller's constructor calls, sums and inputs
    made,      \* the blocks the script has constructed before the Diagram
    diagram,   \* the Diagram object
    pc,        \* "script", "ready", "simulate" or "failed"
    err,       \* the exception the last call raised, "None" if none
    partial,   \* the object whose constructor raised, None if none did
    sim,       \* the locals of a running simulate: ts, dt, i, outputs
    result,    \* what the last call returned if it was simulate, else None
    prev,      \* what the call before the last simulate(ts) returned, if it
               \* was simulate(ts) with the same ts, else None
    log,       \* the calls made by the last call if it was a step, in order
    tables,    \* the signal table after each step of the last simulate
    nsteps,    \* steps since the last reset
    clock      \* the time of the last step since the last reset

vars == <<script, made, diagram, pc, err, partial, sim, result, prev, log,
          tables, nsteps, clock>>

Init ==
    /\ script \in Scripts
    /\ made = <<>>
    /\ diagram = None
    /\ pc = "script"
    /\ err = "None"
    /\ partial = None
    /\ sim = None
    /\ result = None
    /\ prev = None
    /\ log = <<>>
    /\ tables = <<>>
    /\ nsteps = 0
    /\ clock = 0

\* The outcome r of a block's constructor reaches the script.
BlockConstructed(r) ==
    IF r.raised = "None"
    THEN /\ made' = Append(made, r.self)
         /\ UNCHANGED <<pc, err, partial>>
    ELSE /\ pc' = "failed"
         /\ err' = r.raised
         /\ partial' = r.self
         /\ UNCHANGED made

\* The outcome r of the Diagram's constructor reaches the script.
DiagramConstructed(r) ==
    IF r.raised = "None"
    THEN /\ diagram' = r.self
         /\ made' = <<>>
         /\ pc' = "ready"
         /\ UNCHANGED <<err, partial>>
    ELSE /\ pc' = "failed"
         /\ err' = r.raised
         /\ partial' = r.self
         /\ UNCHANGED <<diagram, made>>

\* The outcome r of a step reaches the diagram and the caller.
Stepped(r) ==
    /\ diagram' = r.self
    /\ err' = r.raised
    /\ log' = r.log

\* The script constructs its next block.
NewBlock ==
    /\ pc = "script"
    /\ Len(made) < Len(script.ctors)
    /\ BlockConstructed(Construct(script.ctors[Len(made) + 1]))
    /\ UNCHANGED <<script, diagram, sim, result, prev, log, tables, nsteps, clock>>

\* The script constructs the Diagram from its blocks, sums and inputs.
NewDiagram ==
    /\ pc = "script"
    /\ Len(made) = Len(script.ctors)
    /\ DiagramConstructed(Diagram_init(made, script.sums, script.inputs))
    /\ UNCHANGED <<script, sim, result, prev, log, tables, nsteps, clock>>

\* diagram.reset()
Reset ==
    /\ pc = "ready"
    /\ diagram' = Diagram_reset(diagram)
    /\ err' = "None"
    /\ result' = None
    /\ prev' = None
    /\ log' = <<>>
    /\ tables' = <<>>
    /\ nsteps' = 0
    /\ clock' = 0
    /\ UNCHANGED <<script, made, pc, partial, sim>>

\* diagram.step(t, dt), called directly.
Step(t, dt) ==
    /\ pc = "ready"
    /\ nsteps < MaxTicks
    /\ t >= clock
    /\ Stepped(Diagram_step(diagram, t, dt))
    /\ result' = None
    /\ prev' = None
    /\ tables' = <<>>
    /\ nsteps' = nsteps + 1
    /\ clock' = t
    /\ UNCHANGED <<script, made, pc, partial, sim>>

\* The positions of the controllers in the diagram's block list.
Controllers ==
    IF pc = "ready"
    THEN {i \in 1..Len(diagram.blocks) : diagram.blocks[i].cls \in ControllerClasses}
    ELSE {}

\* block.automatic = v, for a controller of the diagram.
SetAutomatic(i, v) ==
    /\ pc = "ready"
    /\ nsteps < MaxTicks
    /\ diagram.blocks[i].automatic # v
    /\ diagram' = SetAttrs(diagram,
           [blocks |-> [diagram.blocks EXCEPT ![i] = SetAttrs(@, [automatic |-> v])]])
    /\ err' = "None"
    /\ result' = None
    /\ prev' = None
    /\ tables' = <<>>
    /\ log' = <<>>
    /\ UNCHANGED <<script, made, pc, partial, sim, nsteps, clock>>

\* A simulate that resets the diagram before it reads ts[1].
SimulateBegin_reset_first(ts) ==
    /\ pc = "ready"
    /\ prev' = IF result # None /\ result.ts = ts THEN result ELSE None
    /\ result' = None
    /\ tables' = <<>>
    /\ diagram' = Diagram_reset(diagram)
    /\ IF Len(ts) < 2
       THEN /\ err' = "IndexError"
            /\ UNCHANGED <<pc, sim, log, nsteps, clock>>
       ELSE /\ err' = "None"
            /\ sim' = [ts |-> ts, dt |-> ts[2], i |-> 1, outputs |-> <<>>]
            /\ pc' = "simulate"
            /\ log' = <<>>
            /\ nsteps' = 0
            /\ clock' = 0
    /\ UNCHANGED <<script, made, partial>>

\* diagram.simulate(ts), up to the loop: dt = ts[1], then the reset.
SimulateBegin(ts) ==
    /\ pc = "ready"
    /\ prev' = IF result # None /\ result.ts = ts THEN result ELSE None
    /\ result' = None
    /\ tables' = <<>>
    /\ IF Len(ts) < 2
       THEN /\ err' = "IndexError"
            /\ UNCHANGED <<diagram, pc, sim, log, nsteps, clock>>
       ELSE /\ err' = "None"
            /\ sim' = [ts |-> ts, dt |-> ts[2], i |-> 1, outputs |-> <<>>]
            /\ diagram' = Diagram_reset(diagram)
            /\ pc' = "simulate"
            /\ log' = <<>>
            /\ nsteps' = 0
            /\ clock' = 0
    /\ UNCHANGED <<script, made, partial>>

\* One pass of simulate's loop: the step at ts[i] and the recording of the
\* signal table.  An exception of the step leaves simulate.
SimulateTick ==
    /\ pc = "simulate"
    /\ sim.i <= Len(sim.ts)
    /\ Stepped(Diagram_step(diagram, sim.ts[sim.i], sim.dt))
    /\ IF err' = "None"
       THEN /\ sim' = [sim EXCEPT !.i = @ + 1,
                                  !.outputs = Record(@, diagram'.signals)]
            /\ tables' = Append(tables, diagram'.signals)
            /\ pc' = pc
       ELSE /\ sim' = None
            /\ tables' = <<>>
            /\ pc' = "ready"
    /\ nsteps' = nsteps + 1
    /\ clock' = sim.ts[sim.i]
    /\ UNCHANGED <<script, made, partial, result, prev>>

\* simulate returns outputs.
SimulateReturn ==
    /\ pc = "simulate"
    /\ sim.i > Len(sim.ts)
    /\ result' = [ts |-> sim.ts, outputs |-> sim.outputs]
    /\ sim' = None
    /\ pc' = "ready"
    /\ UNCHANGED <<script, made, diagram, err, partial, prev, log, tables, nsteps,
                   clock>>

Next ==
    \/ NewBlock
    \/ NewDiagram
    \/ Reset
    \/ \E t \in 0..MaxTime, dt \in StepSizes : Step(t, dt)
    \/ \E i \in Controllers, v \in BOOLEAN : SetAutomatic(i, v)
    \/ \E ts \in TimestampSeqs : SimulateBegin(ts)
    \/ SimulateTick
    \/ SimulateReturn

Spec == Init /\ [][Next]_vars

\* ------------------------------------------------------------------------
\* Properties
\* ------------------------------------------------------------------------
\* The diagram exists.
Live == pc \in {"ready", "simulate"}

\* The signal names of the script's diagram: block inputs and outputs,
\* junction outputs and external inputs.
ScriptNames ==
    {script.ctors[i].inputname : i \in 1..Len(script.ctors)}
    \cup {script.ctors[i].outputname : i \in 1..Len(script.ctors)}
    \cup SumNames(script.sums) \cup ExternalNames(script.inputs)

\* The junction terms naming no signal of the diagram.
DanglingTerms ==
    {<<i, k>> \in (1..Len(script.sums)) \X (1..2) :
        /\ k <= Len(script.sums[i].terms)
        /\ script.sums[i].terms[k].name \notin ScriptNames}

\* The script passes the constructors' checks.
ValidScript ==
    /\ \A i \in 1..Len(script.ctors) : script.ctors[i].cls \in BlockClasses
    /\ \A i \in 1..Len(script.sums) : \A k \in 1..Len(script.sums[i].terms) :
           script.sums[i].terms[k].sign \in {"+", "-"}

\* The timestamps are uniformly spaced.
Uniform(ts) == \A i \in 2..(Len(ts) - 1) : ts[i + 1] - ts[i] = ts[2] - ts[1]

\* C1: simulate(ts) called twice in a row on the same diagram returns the
\* same series for every signal: nothing the first run left in the blocks
\* or in the signal table reaches the second.
C1_SimulateTwiceSame ==
    (pc = "ready" /\ result # None /\ prev # None /\ prev.ts = result.ts)
        => result.outputs = prev.outputs

\* A second simulate(ts) in a row has returned, on a diagram whose DiscreteTF
\* has sampled and whose Deadtime has a history, with a nonzero series.
C1_Witness ==
    /\ pc = "ready" /\ result # None /\ prev # None /\ prev.ts = result.ts
    /\ \E i \in 1..Len(diagram.blocks) :
           diagram.blocks[i].cls = "DiscreteTF" /\ diagram.blocks[i].next_sample > 0
    /\ \E i \in 1..Len(diagram.blocks) :
           diagram.blocks[i].cls = "Deadtime" /\ Len(diagram.blocks[i].ts) > 2
    /\ \E n \in DOMAIN result.outputs : result.outputs[n][Len(result.ts)] # R0

\* The object of the script's i-th constructor call, once the call was made.
Attempted(i) == i <= Len(made) \/ (pc = "failed" /\ i = Len(made) + 1) \/ Live
ObjectOf(i) ==
    IF Live THEN diagram.blocks[i]
    ELSE IF i <= Len(made) THEN made[i] ELSE partial

\* C2 as claimed: PID(name, inputname, outputname, Kc, tau_i, tau_d=0)
\* succeeds and yields the numerator [Kc*tau_i, Kc] and the denominator
\* [tau_i, 0] of PI(name, inputname, outputname, Kc, tau_i), with the same
\* name and wiring.
C2_PIDWithoutDerivativeIsPI ==
    \A i \in 1..Len(script.ctors) :
        (script.ctors[i].cls = "PID" /\ script.ctors[i].tau_d = 0 /\ Attempted(i))
            => /\ ~(pc = "failed" /\ i = Len(made) + 1)
               /\ ObjectOf(i).G = [num |-> <<script.ctors[i].Kc * script.ctors[i].tau_i,
                                             script.ctors[i].Kc>>,
                                   den |-> <<script.ctors[i].tau_i, 0>>]
               /\ ObjectOf(i).name = script.ctors[i].name
               /\ ObjectOf(i).inputname = script.ctors[i].inputname
               /\ ObjectOf(i).outputname = script.ctors[i].outputname

\* C3 as claimed: for uniformly spaced timestamps, whatever ts[0], the step
\* size simulate passes to every step is ts[1] - ts[0] (here ts[2] - ts[1],
\* sequences being indexed from 1).
C3_StepSizeIsSpacing ==
    (pc = "simulate" /\ Uniform(sim.ts)) => sim.dt = sim.ts[2] - sim.ts[1]

\* C4: a Diagram given a non-Block element or a term without a sign raises
\* before any block is reset and before blocks, sums, inputs or the signal
\* table are assigned; a DiscreteTF given denominator[0] == 0 raises before
\* dt, the coefficients, the buffers or next_sample are assigned.
C4_ConstructionFailsFast ==
    /\ (Live \/ (pc = "failed" /\ partial.cls = "Diagram")) =>
           (ValidScript <=> Live)
    /\ (pc = "failed" /\ partial.cls = "Diagram") =>
           /\ DOMAIN partial = {"cls"}
           /\ diagram = None
           /\ \A i \in 1..Len(made) : made[i] = Construct(script.ctors[i]).self
    /\ \A i \in 1..Len(script.ctors) :
           (script.ctors[i].cls = "DiscreteTF" /\ Attempted(i)) =>
               IF script.ctors[i].denominator[1] = 0
               THEN /\ pc = "failed" /\ err = "ValueError"
                    /\ DOMAIN partial = {"cls", "name", "inputname", "outputname"}
               ELSE "next_sample" \in DOMAIN ObjectOf(i)

\* The Diagram constructor has raised on a term without a sign, its blocks
\* list holding a Zero block that no reset has given a state.
C4_Witness ==
    /\ pc = "failed" /\ partial.cls = "Diagram" /\ err = "ValueError"
    /\ \E i \in 1..Len(made) : made[i].cls = "Zero" /\ "state" \notin DOMAIN made[i]

\* C5: a Diagram with a junction term naming no signal is constructed
\* without error; every step of it fails with a KeyError raised in that
\* junction, after the inputs and the earlier junctions and before any
\* block's change_input or change_state; simulate never completes a tick.
\* A block input name is always in the table, and a diagram without such a
\* term never raises a KeyError.
C5_DanglingFailsAtStep ==
    /\ (ValidScript /\ pc = "failed") => partial.cls # "Diagram"
    /\ Live => InputNames(diagram.blocks) \subseteq DOMAIN diagram.signals
    /\ (Live /\ DanglingTerms = {}) => err # "KeyError"
    /\ (Live /\ DanglingTerms # {} /\ log # <<>>) =>
           /\ \E d \in DanglingTerms :
                  /\ log[Len(log)] = <<"KeyError", script.sums[d[1]].output>>
                  /\ Len(log) = Len(script.inputs) + d[1]
           /\ \A e \in 1..Len(log) : log[e][1] \notin {"change_input", "change_state"}
           /\ \A i \in 1..Len(diagram.blocks) :
                  diagram.blocks[i] = reset(diagram.blocks[i])
           /\ result = None
           /\ pc = "simulate" => sim.i = 1

\* The first step of a simulate has raised the KeyError in the second
\* junction: the input and the first junction are in the table, the
\* Deadtime block has not been called.
C5_Witness ==
    /\ pc = "ready" /\ err = "KeyError" /\ nsteps = 1 /\ sim = None
    /\ DanglingTerms = {<<2, 2>>}
    /\ "r" \in DOMAIN diagram.signals /\ diagram.signals["a"] # R0
    /\ Len(diagram.blocks[1].ts) = 1

\* The signal names of the diagram.
DiagramNames ==
    InputNames(diagram.blocks) \cup OutputNames(diagram.blocks)
    \cup SumNames(diagram.sums) \cup ExternalNames(diagram.inputs)

\* C6: on a diagram without dangling references simulate(ts) never fails in
\* a step, and what it builds and returns has one series for every signal
\* name of the diagram, of one entry per timestamp done, the k-th entry being
\* the signal's value in the table at the end of the k-th step.
C6_SimulateRecordsEveryTick ==
    /\ (pc = "simulate" /\ DanglingTerms = {}) =>
           /\ err = "None"
           /\ Len(tables) = sim.i - 1
           /\ sim.i > 1 =>
                  /\ DOMAIN sim.outputs = DiagramNames
                  /\ \A n \in DiagramNames :
                         /\ Len(sim.outputs[n]) = sim.i - 1
                         /\ \A k \in 1..(sim.i - 1) :
                                sim.outputs[n][k] = tables[k][n]
    /\ (pc = "ready" /\ result # None) =>
           /\ Len(result.ts) >= 2
           /\ DOMAIN result.outputs = DiagramNames
           /\ \A n \in DiagramNames :
                  /\ Len(result.outputs[n]) = Len(result.ts)
                  /\ \A k \in 1..Len(result.ts) : result.outputs[n][k] = tables[k][n]

\* simulate has returned three entries per signal of a closed loop, one
\* series holding three different values.
C6_Witness ==
    /\ pc = "ready" /\ result # None /\ Len(result.ts) = 3
    /\ Len(diagram.blocks) = 4
    /\ \E n \in DiagramNames :
           /\ result.outputs[n][1] # result.outputs[n][2]
           /\ result.outputs[n][2] # result.outputs[n][3]
           /\ result.outputs[n][1] # result.outputs[n][3]

\* C7: a Zero block's output signal is 0 in the table and in every recorded
\* entry, and its state is 0 after every step, whatever drives its input.
C7_ZeroBlockOutputsZero ==
    Live => \A i \in 1..Len(diagram.blocks) :
        diagram.blocks[i].cls = "Zero" =>
            /\ diagram.blocks[i].state = R0
            /\ diagram.blocks[i].x = R0
            /\ diagram.signals[diagram.blocks[i].outputname] = R0
            /\ \A k \in 1..Len(tables) :
                   tables[k][diagram.blocks[i].outputname] = R0
            /\ (pc = "simulate" /\ sim.i > 1) =>
                   \A k \in 1..(sim.i - 1) :
                       sim.outputs[diagram.blocks[i].outputname][k] = R0
            /\ result # None =>
                   \A k \in 1..Len(result.ts) :
                       result.outputs[diagram.blocks[i].outputname][k] = R0

\* simulate has returned from a diagram of one Zero block whose input was
\* nonzero at every tick and changed.
C7_Witness ==
    /\ pc = "ready" /\ result # None
    /\ Len(diagram.blocks) = 1 /\ diagram.blocks[1].cls = "Zero"
    /\ \A k \in 1..Len(result.ts) : result.outputs["u"][k] # R0
    /\ result.outputs["u"][1] # result.outputs["u"][2]
    /\ diagram.blocks[1].state = R0

\* A diagram of one block of class cls driven by a step input on ticks
\* t = 0, h, 2h, ...
SteppedSingle(cls) ==
    /\ pc = "simulate" /\ sim.i > 1
    /\ Len(script.ctors) = 1 /\ script.ctors[1].cls = cls
    /\ script.inputs[1].function.fn = "stepfunction"
    /\ sim.ts[1] = 0 /\ Uniform(sim.ts)

\* C8: a Deadtime of delay d > 0, d a whole multiple of the tick spacing,
\* driven from reset at t = 0, h, 2h, ... by a step input outputs at every
\* tick t >= d the input supplied at tick t - d (the step shifted by d) and
\* at every tick t < d the value 0.
C8_DeadtimeShiftsStep ==
    (/\ SteppedSingle("Deadtime")
     /\ script.ctors[1].delay > 0
     /\ script.ctors[1].delay % (sim.ts[2] - sim.ts[1]) = 0) =>
        \A k \in 1..(sim.i - 1) :
            IF sim.ts[k] >= script.ctors[1].delay
            THEN /\ sim.outputs["y"][k] =
                        sim.outputs["u"][k - script.ctors[1].delay
                                                \div (sim.ts[2] - sim.ts[1])]
                 /\ sim.outputs["y"][k] =
                        stepfunction(script.inputs[1].function,
                                     sim.ts[k] - script.ctors[1].delay)
            ELSE sim.outputs["y"][k] = R0

\* A tick at or after the delay, where the output is the earlier input,
\* nonzero and other than the input of that tick; and a tick before the
\* delay with a nonzero input.
C8_Witness ==
    /\ SteppedSingle("Deadtime")
    /\ script.ctors[1].delay > 0
    /\ script.ctors[1].delay % (sim.ts[2] - sim.ts[1]) = 0
    /\ sim.outputs["u"][1] # R0
    /\ \E k \in 1..(sim.i - 1) :
           /\ sim.ts[k] >= script.ctors[1].delay
           /\ sim.outputs["y"][k] # R0
           /\ sim.outputs["y"][k] # sim.outputs["u"][k]

\* C9: a DiscreteTF with numerator [1], denominator [1] and a sampling
\* interval equal to the tick spacing, simulated from reset on t = 0, h,
\* 2h, ..., outputs at every tick the input of that tick or of the tick
\* before (0 before the first), and the input itself whenever the input is
\* the same as at the tick before.
C9_IdentityDiscreteTF ==
    (/\ SteppedSingle("DiscreteTF")
     /\ script.ctors[1].numerator = <<1>> /\ script.ctors[1].denominator = <<1>>
     /\ script.ctors[1].dt = sim.ts[2] - sim.ts[1]) =>
        \A k \in 1..(sim.i - 1) :
            /\ sim.outputs["y"][k] \in
                   {sim.outputs["u"][k],
                    IF k = 1 THEN R0 ELSE sim.outputs["u"][k - 1]}
            /\ (k > 1 /\ sim.outputs["u"][k] = sim.outputs["u"][k - 1]) =>
                   sim.outputs["y"][k] = sim.outputs["u"][k]

\* The output lags at the first tick (0 for a nonzero input) and follows a
\* changed input at the second.
C9_Witness ==
    /\ SteppedSingle("DiscreteTF")
    /\ script.ctors[1].numerator = <<1>> /\ script.ctors[1].denominator = <<1>>
    /\ script.ctors[1].dt = sim.ts[2] - sim.ts[1]
    /\ sim.i > 2
    /\ sim.outputs["u"][1] # R0 /\ sim.outputs["y"][1] = R0
    /\ sim.outputs["u"][2] # sim.outputs["u"][1]
    /\ sim.outputs["y"][2] = sim.outputs["u"][2]

\* The signed sum of terms, from term k on, reading the names in now from
\* the table cur and every other name from the table old.
RECURSIVE SignedSum(_, _, _, _, _)
SignedSum(terms, k, now, cur, old) ==
    IF k > Len(terms) THEN R0
    ELSE RAdd(RMul(SignOf(terms[k]),
                   IF terms[k].name \in now
                   THEN cur[terms[k].name]
                   ELSE old[terms[k].name]),
              SignedSum(terms, k + 1, now, cur, old))

\* The calls of a step that raises nothing: inputs, junctions in definition
\* order, then change_input and change_state of each block in list order.
OrderedLog ==
    InputLog(diagram.inputs)
    \o [j \in 1..Len(diagram.sums) |-> <<"sum", diagram.sums[j].output>>]
    \o [e \in 1..(2 * Len(diagram.blocks)) |->
           IF e % 2 = 1
           THEN <<"change_input", diagram.blocks[(e + 1) \div 2].name>>
           ELSE <<"change_state", diagram.blocks[e \div 2].name>>]

\* The table before the first tick of a simulate.
ZeroTable == [n \in DiagramNames |-> R0]

\* No signal has two writers.
SingleWriters ==
    /\ SumNames(diagram.sums) \cap OutputNames(diagram.blocks) = {}
    /\ SumNames(diagram.sums) \cap ExternalNames(diagram.inputs) = {}
    /\ ExternalNames(diagram.inputs) \cap OutputNames(diagram.blocks) = {}

\* C10: a step calls the inputs, then the junctions in definition order,
\* then the blocks in list order; so the value recorded for a junction at a
\* tick is the signed sum of the external inputs and earlier junctions of
\* that tick and of the block outputs and later junctions as recorded at
\* the tick before (0 at the first tick).
C10_JunctionReadsPreviousTick ==
    (Live /\ SingleWriters) =>
        /\ (log # <<>> /\ log[Len(log)][1] # "KeyError") => log = OrderedLog
        /\ \A k \in 1..Len(tables) : \A j \in 1..Len(diagram.sums) :
               tables[k][diagram.sums[j].output] =
                   SignedSum(diagram.sums[j].terms, 1,
                             ExternalNames(diagram.inputs)
                                 \cup {diagram.sums[i].output : i \in 1..(j - 1)},
                             tables[k],
                             IF k = 1 THEN ZeroTable ELSE tables[k - 1])

\* At a tick after the first, a junction's recorded value is not the signed
\* sum of the values recorded at that same tick.
C10_Witness ==
    /\ Live
    /\ \E k \in 2..Len(tables) : \E j \in 1..Len(diagram.sums) :
           tables[k][diagram.sums[j].output] #
               SignedSum(diagram.sums[j].terms, 1, DiagramNames, tables[k],
                         tables[k])

\* A step that raised nothing has been taken.
StepTaken == Live /\ nsteps' = nsteps + 1 /\ err' = "None"

\* The dt of the step being taken.
StepDts == IF pc = "simulate" THEN {sim.dt} ELSE StepSizes

\* Every signal has one writer: an input function, a junction or a block.
OneWriterEach ==
    /\ SingleWriters
    /\ \A i, j \in 1..Len(diagram.blocks) :
           diagram.blocks[i].outputname = diagram.blocks[j].outputname => i = j

\* The input value block i reads in the step being taken: what the table
\* held before the step if the signal's producer is block i or a block
\* listed after it, else what this step wrote.
ReadBy(i) ==
    IF \E j \in i..Len(diagram.blocks) :
           diagram.blocks[j].outputname = diagram.blocks[i].inputname
    THEN diagram.signals[diagram.blocks[i].inputname]
    ELSE diagram'.signals[diagram.blocks[i].inputname]

\* x + (A.x + B.u) * dt, row by row.
EulerOf(b, u, dt) ==
    [r \in 1..Len(b.x) |->
        RAdd(b.x[r],
             RMul(RAdd(inner(b.Gss.A[r], b.x), RMul(b.Gss.B[r], u)), R(dt)))]

\* C11: in every step, for every block, the output stored in the table is
\* what change_input computes from the block as it was before the step's
\* integration and from the input value u read for it in this step, and the
\* state after the step is old state + derivative(u) * dt with the
\* derivative taken on the old state; the fresh output plays no part.
C11_OutputThenIntegrate ==
    [][(StepTaken /\ OneWriterEach) =>
          \E dt \in StepDts : \A i \in 1..Len(diagram.blocks) :
              /\ diagram'.signals[diagram.blocks[i].outputname] =
                     returned_output(
                         change_input(diagram.blocks[i], clock', ReadBy(i)),
                         clock', ReadBy(i))
              /\ diagram'.blocks[i].state =
                     IF diagram.blocks[i].cls \in LTIClasses
                     THEN EulerOf(diagram.blocks[i], ReadBy(i), dt)
                     ELSE diagram.blocks[i].state
              /\ diagram.blocks[i].cls # "DiscreteTF" =>
                     diagram'.blocks[i].x = diagram'.blocks[i].state]_vars

\* After two steps an LTI listed after the block that produces its input
\* has a nonzero state, and its output differs from its input.
C11_Witness ==
    /\ Live /\ nsteps >= 2 /\ err = "None" /\ log # <<>>
    /\ \E i \in 1..Len(diagram.blocks) :
           /\ diagram.blocks[i].cls = "LTI"
           /\ diagram.blocks[i].state # zeros(Len(diagram.blocks[i].state))
           /\ \E j \in 1..(i - 1) :
                  diagram.blocks[j].outputname = diagram.blocks[i].inputname
           /\ diagram.signals[diagram.blocks[i].outputname] #
                  diagram.signals[diagram.blocks[i].inputname]
           /\ diagram.signals[diagram.blocks[i].outputname] # R0

\* Input values given to a single change_input call.
ProbeInputs == {R0, R(1), R(-2), Q(1, 2)}

\* The attributes change_input may assign: the held output, the Deadtime
\* history, the DiscreteTF buffers and next_sample (and, for an LTI, its
\* delay sub-block, which is held to the Deadtime's list in turn).
MayChange(cls) ==
    CASE cls \in LTIClasses -> {"y", "output", "delay"}
      [] cls = "Deadtime" -> {"y", "output", "ts", "us"}
      [] cls = "DiscreteTF" -> {"output", "us", "ys", "next_sample"}
      [] cls = "AlgebraicEquation" -> {"y", "output"}
      [] OTHER -> {}

\* The object c is b but for the attributes change_input may assign.
SameButHeld(b, c) ==
    /\ DOMAIN c = DOMAIN b
    /\ \A a \in DOMAIN b \ MayChange(b.cls) : c[a] = b[a]

\* C12: for every block variant, change_input(t, u) leaves x and state (and
\* those of an LTI's delay sub-block) as they were; it assigns at most the
\* held output, the Deadtime history and the DiscreteTF buffers and
\* next_sample.
C12_ChangeInputKeepsState ==
    Live => \A i \in 1..Len(diagram.blocks) :
        \A t \in clock..MaxTime, u \in ProbeInputs :
            /\ SameButHeld(diagram.blocks[i], change_input(diagram.blocks[i], t, u))
            /\ change_input(diagram.blocks[i], t, u).state = diagram.blocks[i].state
            /\ diagram.blocks[i].cls # "DiscreteTF" =>
                   change_input(diagram.blocks[i], t, u).x = diagram.blocks[i].x
            /\ (diagram.blocks[i].cls \in LTIClasses
                    /\ diagram.blocks[i].delay # None) =>
                   SameButHeld(diagram.blocks[i].delay,
                               change_input(diagram.blocks[i], t, u).delay)

\* An LTI with a delay and a nonzero state, on which a change_input call
\* changes the output and the history of the delay sub-block.
C12_Witness ==
    /\ Live
    /\ \E i \in 1..Len(diagram.blocks) :
           \E t \in clock..MaxTime, u \in ProbeInputs :
               /\ diagram.blocks[i].cls = "LTI" /\ diagram.blocks[i].delay # None
               /\ diagram.blocks[i].state # zeros(Len(diagram.blocks[i].state))
               /\ change_input(diagram.blocks[i], t, u).output #
                      diagram.blocks[i].output
               /\ change_input(diagram.blocks[i], t, u).delay.ts #
                      diagram.blocks[i].delay.ts

\* Block i is a controller in manual mode.
Manual(d, i) ==
    d.blocks[i].cls \in ControllerClasses /\ ~d.blocks[i].automatic

\* A step, raising or not, is being taken.
StepCalled == Live /\ nsteps' = nsteps + 1

\* C13: while a controller's automatic flag is false, change_input(t, u)
\* returns the held output for every t and u and changes nothing, so a
\* step in manual mode leaves the held output and the delay sub-block as
\* they were and writes the held output, unchanged, to the table.
C13_ManualHoldsOutput ==
    [][/\ StepCalled =>
              \A i \in 1..Len(diagram.blocks) :
                  (Manual(diagram, i) /\ OneWriterEach) =>
                      /\ diagram'.blocks[i].output = diagram.blocks[i].output
                      /\ diagram'.blocks[i].y = diagram.blocks[i].y
                      /\ diagram'.blocks[i].delay = diagram.blocks[i].delay
                      /\ diagram'.signals[diagram.blocks[i].outputname] =
                             diagram.blocks[i].output
                      /\ diagram'.signals[diagram.blocks[i].outputname] =
                             diagram.signals[diagram.blocks[i].outputname]
       /\ Live' =>
              \A i \in 1..Len(diagram'.blocks) :
                  Manual(diagram', i) =>
                      \A t \in clock'..MaxTime, u \in ProbeInputs :
                          /\ change_input(diagram'.blocks[i], t, u) =
                                 diagram'.blocks[i]
                          /\ returned_output(
                                 change_input(diagram'.blocks[i], t, u), t, u) =
                                 diagram'.blocks[i].output]_vars

\* The last call was a step in manual mode, taken after steps in automatic
\* mode: the controller holds a nonzero output that its nonzero input would
\* have changed, and its delay sub-block has missed the step's sample.
C13_Witness ==
    /\ Live /\ log # <<>> /\ nsteps >= 2
    /\ \E i \in 1..Len(diagram.blocks) :
           /\ Manual(diagram, i)
           /\ diagram.blocks[i].delay # None
           /\ diagram.blocks[i].output # R0
           /\ diagram.signals[diagram.blocks[i].outputname] =
                  diagram.blocks[i].output
           /\ diagram.signals[diagram.blocks[i].inputname] # R0
           /\ Len(diagram.blocks[i].delay.ts) = nsteps
           /\ LTI_change_input(diagram.blocks[i], clock,
                               diagram.signals[diagram.blocks[i].inputname]).output
                  # diagram.blocks[i].output

\* C14 as claimed: across every step taken while a controller's automatic
\* flag is false, the controller's state x is unchanged as well as its
\* output.
C14_ManualFreezesState ==
    [][StepCalled =>
          \A i \in 1..Len(diagram.blocks) :
              Manual(diagram, i) =>
                  /\ diagram'.blocks[i].output = diagram.blocks[i].output
                  /\ diagram'.blocks[i].x = diagram.blocks[i].x
                  /\ diagram'.blocks[i].state = diagram.blocks[i].state]_vars

\* C15 as claimed: a DiscreteTF.change_input(t, u) call with t < next_sample
\* leaves next_sample, both buffers and the output as they were, and every
\* call with t >= next_sample, t == next_sample included, takes a sample:
\* next_sample grows by dt, u enters the newest slot of the shifted input
\* buffer and the output buffer is shifted.
C15_SamplesWhenReached ==
    [][(StepTaken /\ OneWriterEach) =>
          \A i \in 1..Len(diagram.blocks) :
              diagram.blocks[i].cls = "DiscreteTF" =>
                  IF clock' < diagram.blocks[i].next_sample
                  THEN diagram'.blocks[i] = diagram.blocks[i]
                  ELSE /\ diagram'.blocks[i].next_sample =
                              diagram.blocks[i].next_sample + diagram.blocks[i].dt
                       /\ diagram'.blocks[i].us =
                              Append(allButFirst(diagram.blocks[i].us), ReadBy(i))
                       /\ allButLast(diagram'.blocks[i].ys) =
                              allButFirst(diagram.blocks[i].ys)]_vars

\* c_0*buf[k] + c_1*buf[k-1] + ..., buf[k] being the newest (last) entry of
\* buf: the terms from coefficient j on (coeffs[1] is c_0).
RECURSIVE Weighted(_, _, _)
Weighted(coeffs, buf, j) ==
    IF j > Len(coeffs) THEN R0
    ELSE RAdd(RMul(R(coeffs[j]), buf[Len(buf) + 1 - j]),
              Weighted(coeffs, buf, j + 1))

\* C16: a DiscreteTF keeps an input buffer of n+1 and an output buffer of
\* m+1 entries, all 0 after reset; a change_input call that takes a sample
\* shifts both, puts the input in the newest slot, and its new output y[k]
\* satisfies a_0*y[k] + ... + a_m*y[k-m] = b_0*u[k] + ... + b_n*u[k-n] over
\* the samples the buffers hold: the divisor is a_0.
C16_DifferenceEquation ==
    [][Live' =>
          \A i \in 1..Len(diagram'.blocks) :
              diagram'.blocks[i].cls = "DiscreteTF" =>
                  /\ Len(diagram'.blocks[i].us) = Len(script.ctors[i].numerator)
                  /\ Len(diagram'.blocks[i].ys) = Len(script.ctors[i].denominator)
                  /\ nsteps' = 0 =>
                         /\ diagram'.blocks[i].us =
                                zeros(Len(script.ctors[i].numerator))
                         /\ diagram'.blocks[i].ys =
                                zeros(Len(script.ctors[i].denominator))
                  /\ (StepTaken /\ OneWriterEach
                         /\ diagram'.blocks[i].next_sample #
                                diagram.blocks[i].next_sample) =>
                         /\ diagram'.blocks[i].us =
                                Append(allButFirst(diagram.blocks[i].us), ReadBy(i))
                         /\ allButLast(diagram'.blocks[i].ys) =
                                allButFirst(diagram.blocks[i].ys)
                         /\ Weighted(script.ctors[i].denominator,
                                     diagram'.blocks[i].ys, 1) =
                                Weighted(script.ctors[i].numerator,
                                         diagram'.blocks[i].us, 1)
                         /\ diagram'.blocks[i].output =
                                diagram'.blocks[i].ys[Len(diagram'.blocks[i].ys)]
                         /\ diagram'.signals[diagram.blocks[i].outputname] =
                                diagram'.blocks[i].output]_vars

\* A DiscreteTF with two coefficients in numerator and denominator, a_0
\* other than a_1, has taken two samples of nonzero inputs: both output
\* slots hold nonzero, different values.
C16_Witness ==
    /\ Live /\ err = "None" /\ nsteps >= 2
    /\ \E i \in 1..Len(diagram.blocks) :
           /\ diagram.blocks[i].cls = "DiscreteTF"
           /\ script.ctors[i].denominator = <<2, 1>>
           /\ Len(script.ctors[i].numerator) = 2
           /\ diagram.blocks[i].next_sample >= 2 * diagram.blocks[i].dt
           /\ diagram.blocks[i].us[1] # R0 /\ diagram.blocks[i].us[2] # R0
           /\ diagram.blocks[i].ys[1] # R0 /\ diagram.blocks[i].ys[2] # R0
           /\ diagram.blocks[i].ys[1] # diagram.blocks[i].ys[2]

\* The Deadtime of block b: b itself, or the delay sub-block of an LTI.
DeadtimeOf(b) ==
    IF b.cls = "Deadtime" THEN b
    ELSE IF b.cls \in LTIClasses THEN b.delay
    ELSE None

\* C17: the two histories of a Deadtime have equal length and start with
\* the sample (0, 0); reset leaves that one sample, every change_input call
\* appends one sample (the call's time) and removes nothing, also when
\* delay == 0, so that k calls after reset leave k + 1 samples; and with
\* delay == 0 change_input(t, u) returns u.
C17_DeadtimeHistory ==
    [][Live' =>
          \A i \in 1..Len(diagram'.blocks) :
              DeadtimeOf(diagram'.blocks[i]) # None =>
                  /\ Len(DeadtimeOf(diagram'.blocks[i]).ts) =
                         Len(DeadtimeOf(diagram'.blocks[i]).us)
                  /\ DeadtimeOf(diagram'.blocks[i]).ts[1] = 0
                  /\ DeadtimeOf(diagram'.blocks[i]).us[1] = R0
                  /\ nsteps' = 0 => Len(DeadtimeOf(diagram'.blocks[i]).ts) = 1
                  /\ (diagram'.blocks[i].cls \notin ControllerClasses
                         /\ DanglingTerms = {}) =>
                         Len(DeadtimeOf(diagram'.blocks[i]).ts) = nsteps' + 1
                  /\ (StepCalled /\ (err' # "None" \/ Manual(diagram, i))) =>
                         DeadtimeOf(diagram'.blocks[i]) =
                             DeadtimeOf(diagram.blocks[i])
                  /\ (StepTaken /\ ~Manual(diagram, i)) =>
                         /\ allButLast(DeadtimeOf(diagram'.blocks[i]).ts) =
                                DeadtimeOf(diagram.blocks[i]).ts
                         /\ allButLast(DeadtimeOf(diagram'.blocks[i]).us) =
                                DeadtimeOf(diagram.blocks[i]).us
                         /\ DeadtimeOf(diagram'.blocks[i]).ts[
                                Len(DeadtimeOf(diagram'.blocks[i]).ts)] = clock'
                  /\ (StepTaken /\ OneWriterEach
                         /\ diagram.blocks[i].cls = "Deadtime"
                         /\ diagram.blocks[i].delay = 0) =>
                         /\ diagram'.signals[diagram.blocks[i].outputname] =
                                ReadBy(i)
                         /\ diagram'.blocks[i].output = ReadBy(i)]_vars

\* A Deadtime with delay == 0 has been called three times since the reset:
\* four samples, and the last nonzero input is its output.
C17_Witness ==
    /\ Live /\ err = "None" /\ nsteps = 3
    /\ \E i \in 1..Len(diagram.blocks) :
           /\ diagram.blocks[i].cls = "Deadtime" /\ diagram.blocks[i].delay = 0
           /\ Len(diagram.blocks[i].ts) = 4 /\ Len(diagram.blocks[i].us) = 4
           /\ diagram.blocks[i].us[4] # R0
           /\ diagram.blocks[i].output = diagram.blocks[i].us[4]

\* C18 as claimed: reset leaves every signal name that was in the table,
\* the external input names written by earlier steps included, in the
\* table with value 0, and every block with the attribute values its
\* constructor gave it.
C18_ResetZeroesEveryEntry ==
    [][(pc = "ready" /\ Live' /\ nsteps' = 0) =>
          /\ DOMAIN diagram.signals \subseteq DOMAIN diagram'.signals
          /\ \A n \in DOMAIN diagram'.signals : diagram'.signals[n] = R0
          /\ \A i \in 1..Len(diagram'.blocks) :
                 \A a \in DOMAIN Construct(script.ctors[i]).self \ {"automatic"} :
                     diagram'.blocks[i][a] = Construct(script.ctors[i]).self[a]]_vars

\* C19 as claimed: a Controller constructed with automatic=False has its
\* automatic flag false after construction, and its change_input returns
\* the reset output 0 for every input.
C19_AutomaticArgumentSetsMode ==
    \A i \in 1..Len(made) :
        script.ctors[i].cls = "Controller" =>
            /\ made[i].automatic = script.ctors[i].automatic
            /\ ~script.ctors[i].automatic =>
                   \A t \in 0..MaxTime, u \in ProbeInputs :
                       returned_output(change_input(made[i], t, u), t, u) = R0

\* C20: simulate(ts) with fewer than two timestamps raises an IndexError
\* before the reset and before any step: the loop is never entered with
\* such a ts, and the call that raises leaves the signal table and every
\* block as they were and returns nothing.
C20_ShortSimulateChangesNothing ==
    [][/\ pc' = "simulate" => Len(sim'.ts) >= 2
       /\ err' = "IndexError" =>
              /\ diagram' = diagram
              /\ pc = "ready" /\ pc' = "ready"
              /\ sim' = None /\ result' = None
              /\ nsteps' = nsteps /\ clock' = clock /\ log' = log]_vars

\* simulate has raised the IndexError on a diagram that steps had left
\* with nonzero signals and with block states and histories a reset would
\* have cleared.
C20_Witness ==
    /\ pc = "ready" /\ err = "IndexError" /\ nsteps >= 2 /\ log # <<>>
    /\ \E n \in DOMAIN diagram.signals : diagram.signals[n] # R0
    /\ \E i \in 1..Len(diagram.blocks) :
           /\ diagram.blocks[i].cls = "LTI"
           /\ diagram.blocks[i].delay # None
           /\ Len(diagram.blocks[i].delay.ts) > 1
           /\ diagram.blocks[i].state # zeros(Len(diagram.blocks[i].state))

============================================================================
